---- MODULE Spec2Model ----
(***************************************************************************)
(* Model of etymgroup2.py: per-word enrichment of a word table with the    *)
(* first-known year, the etymology text and an accuracy flag.              *)
(*                                                                         *)
(* Strings are sequences of one-character strings, so that the regular     *)
(* expressions, the substring tests on class attributes and lower() are    *)
(* computed character by character.                                        *)
(***************************************************************************)
EXTENDS Integers, Sequences, FiniteSets

VARIABLES
    input,      \* rows of INPUT as csv.reader yields them (header first)
    pos,        \* number of rows the reader has consumed
    row,        \* the row held by the loop body between the fetch and the write
    result,     \* (year, etym, is_accurate) of the row being processed
    output,     \* rows handed to writer.writerow, in order
    fetchLog,   \* one entry per requests.get performed
    pc,         \* position of main(), or of the single call under study
    arg,        \* argument record of the single call under study
    ret         \* its return value

vars == <<input, pos, row, result, output, fetchLog, pc, arg, ret>>

(***************************************************************************)
(* Bounds of the model.                                                    *)
(***************************************************************************)
MaxChunks == 5
MaxPhrases == 3
MaxDivs == 2
MaxRows == 3
MaxYear == 1850

(***************************************************************************)
(* Characters.                                                             *)
(***************************************************************************)
DigitChars == <<"0", "1", "2", "3", "4", "5", "6", "7", "8", "9">>
LowerChars == <<"a", "b", "c", "d", "e", "f", "g", "h", "i", "j", "k", "l", "m",
                "n", "o", "p", "q", "r", "s", "t", "u", "v", "w", "x", "y", "z">>
UpperChars == <<"A", "B", "C", "D", "E", "F", "G", "H", "I", "J", "K", "L", "M",
                "N", "O", "P", "Q", "R", "S", "T", "U", "V", "W", "X", "Y", "Z">>

Range(f) == {f[i] : i \in DOMAIN f}
DigitSet == Range(DigitChars)
LowerSet == Range(LowerChars)
UpperSet == Range(UpperChars)
IsDigit(c) == c \in DigitSet
IsLower(c) == c \in LowerSet
IsUpper(c) == c \in UpperSet
\* \w of a str pattern
IsWordChar(c) == IsDigit(c) \/ IsLower(c) \/ IsUpper(c) \/ c = "_"
\* \s, and the characters str.strip() removes
IsSpace(c) == c \in {" ", "\t", "\n"}
DigitVal(c) == (CHOOSE i \in 1..10 : DigitChars[i] = c) - 1
ToLower(c) == IF IsUpper(c) THEN LowerChars[CHOOSE i \in 1..26 : UpperChars[i] = c] ELSE c
LowerStr(s) == [i \in 1..Len(s) |-> ToLower(s[i])]

Min(S) == CHOOSE x \in S : \A y \in S : x <= y

RECURSIVE Concat(_)
Concat(ss) == IF ss = <<>> THEN <<>> ELSE Head(ss) \o Concat(Tail(ss))

RECURSIVE JoinWith(_, _)
JoinWith(sep, ss) ==
    IF ss = <<>> THEN <<>>
    ELSE IF Len(ss) = 1 THEN Head(ss)
    ELSE Head(ss) \o sep \o JoinWith(sep, Tail(ss))

\* sub in s, for str
Contains(sub, s) ==
    \E i \in 0..(Len(s) - Len(sub)) : SubSeq(s, i + 1, i + Len(sub)) = sub

RECURSIVE ParseInt(_)
ParseInt(ds) ==
    IF ds = <<>> THEN 0
    ELSE 10 * ParseInt(SubSeq(ds, 1, Len(ds) - 1)) + DigitVal(ds[Len(ds)])

(***************************************************************************)
(* String constants of the program.                                        *)
(***************************************************************************)
FirstKnownSection == <<"f","i","r","s","t","-","k","n","o","w","n","-",
                       "c","o","n","t","e","n","t","-","s","e","c","t","i","o","n">>
EtymologySection == <<"e","t","y","m","o","l","o","g","y","-",
                      "c","o","n","t","e","n","t","-","s","e","c","t","i","o","n">>
EtySl == <<"e","t","y","-","s","l">>
Pb3 == <<"p","b","-","3">>
Et == <<"e","t">>
CenturyWord == <<"c","e","n","t","u","r","y">>
OrdinalSuffixes == {<<"s","t">>, <<"n","d">>, <<"r","d">>, <<"t","h">>}
ModernEnglish == <<"m","o","d","e","r","n"," ","e","n","g","l","i","s","h">>
EarlyModernEnglish == <<"e","a","r","l","y"," ">> \o ModernEnglish
Unknown == <<"u","n","k","n","o","w","n">>
NewColumns == << <<"y","e","a","r","_","u","s","e","d">>, <<"e","t","y","m">>,
                 <<"y","e","a","r","_","a","c","c","u","r","a","t","e">> >>
ModernFrom == 1800
EarlyModernAfter == 1450
NotFound == -1

(***************************************************************************)
(* classify_by_year                                                        *)
(***************************************************************************)
ClassifyByYear_InclusiveLow(year) ==
    IF year >= ModernFrom THEN ModernEnglish
    ELSE IF year >= EarlyModernAfter /\ year < ModernFrom THEN EarlyModernEnglish
    ELSE Unknown

ClassifyByYear(year) ==
    IF year >= ModernFrom THEN ModernEnglish
    ELSE IF year > EarlyModernAfter /\ year < ModernFrom THEN EarlyModernEnglish
    ELSE Unknown

(***************************************************************************)
(* The two regular expressions of extract_year, searched as re.search does:*)
(* the leftmost start that matches, greedy quantifiers with backtracking.  *)
(***************************************************************************)
\* \b at offset i of s (between s[i] and s[i+1])
AtBoundary(s, i) ==
    LET before == i >= 1 /\ IsWordChar(s[i])
        after == i < Len(s) /\ IsWordChar(s[i + 1])
    IN  before # after

\* \b(\d{3,4})\b matching n digits at offset i
YearMatchAt(s, i, n) ==
    /\ AtBoundary(s, i)
    /\ i + n <= Len(s)
    /\ \A k \in 1..n : IsDigit(s[i + k])
    /\ AtBoundary(s, i + n)

YearMatchLen(s, i) ==
    IF YearMatchAt(s, i, 4) THEN 4 ELSE IF YearMatchAt(s, i, 3) THEN 3 ELSE 0

\* group(1) of re.search(r'\b(\d{3,4})\b', s), <<>> for None
SearchYear(s) ==
    LET starts == {i \in 0..Len(s) : YearMatchLen(s, i) > 0}
    IN  IF starts = {} THEN <<>>
        ELSE LET i == Min(starts) IN SubSeq(s, i + 1, i + YearMatchLen(s, i))

\* \b(\d{1,2})(?:st|nd|rd|th)\s+century\b, re.IGNORECASE, with d digits at offset i
CenturyMatchAt(s, i, d) ==
    /\ AtBoundary(s, i)
    /\ i + d + 2 <= Len(s)
    /\ \A k \in 1..d : IsDigit(s[i + k])
    /\ LowerStr(SubSeq(s, i + d + 1, i + d + 2)) \in OrdinalSuffixes
    /\ \E w \in 1..(Len(s) - (i + d + 2)) :
          /\ \A k \in 1..w : IsSpace(s[i + d + 2 + k])
          /\ LET j == i + d + 2 + w
             IN  /\ j + 7 <= Len(s)
                 /\ LowerStr(SubSeq(s, j + 1, j + 7)) = CenturyWord
                 /\ AtBoundary(s, j + 7)

CenturyMatchLen(s, i) ==
    IF CenturyMatchAt(s, i, 2) THEN 2 ELSE IF CenturyMatchAt(s, i, 1) THEN 1 ELSE 0

\* group(1) of the century search, <<>> for None
SearchCentury(s) ==
    LET starts == {i \in 0..Len(s) : CenturyMatchLen(s, i) > 0}
    IN  IF starts = {} THEN <<>>
        ELSE LET i == Min(starts) IN SubSeq(s, i + 1, i + CenturyMatchLen(s, i))

\* lines 56-71 of extract_year: from the paragraph text to (year, is_accurate)
YearFromText_CenturyFirst(text) ==
    LET year_match == SearchYear(text)
        century_match == SearchCentury(text)
    IN  IF century_match # <<>> THEN <<(ParseInt(century_match) - 1) * 100, FALSE>>
        ELSE IF year_match # <<>> THEN <<ParseInt(year_match), TRUE>>
        ELSE <<NotFound, FALSE>>

YearFromText_CenturyEnd(text) ==
    LET year_match == SearchYear(text)
        century_match == SearchCentury(text)
    IN  IF year_match # <<>> THEN <<ParseInt(year_match), TRUE>>
        ELSE IF century_match # <<>> THEN <<ParseInt(century_match) * 100, FALSE>>
        ELSE <<NotFound, FALSE>>

YearFromText(text) ==
    LET year_match == SearchYear(text)
        century_match == SearchCentury(text)
    IN  IF year_match # <<>> THEN <<ParseInt(year_match), TRUE>>
        ELSE IF century_match # <<>> THEN <<(ParseInt(century_match) - 1) * 100, FALSE>>
        ELSE <<NotFound, FALSE>>

(***************************************************************************)
(* The parsed document.  A document is the sequence of its div elements in *)
(* document order; a div has a class attribute (its list of tokens, <<>>   *)
(* when it has none) and its p descendants in order; a p has a class       *)
(* attribute and the strings of its descendants in order.                  *)
(***************************************************************************)
Max(S) == CHOOSE x \in S : \A y \in S : x >= y

\* the lambdas handed to class_
IsFirstKnownClass(x) == x # <<>> /\ Contains(FirstKnownSection, x)
IsEtymologyClass(x) == x # <<>> /\ Contains(EtymologySection, x)
IsYearParagraphClass(x) == x # <<>> /\ Contains(EtySl, x) /\ Contains(Pb3, x)

\* The value of a multi-valued attribute as one string
ClassString(cls) == JoinWith(<<" ">>, cls)

\* The strings a class_ filter is tried on: each token of the class
\* attribute, then the tokens joined by single spaces
ClassCandidates(cls) ==
    {cls[i] : i \in 1..Len(cls)} \cup (IF Len(cls) > 1 THEN {ClassString(cls)} ELSE {})

\* find(): the first element selected, 0 for None
FirstOf(hits) == IF hits = {} THEN 0 ELSE Min(hits)

\* soup.find('div', class_=lambda x: x and 'first-known-content-section' in x)
FindFirstKnownDiv(doc) ==
    FirstOf({i \in 1..Len(doc) : \E x \in ClassCandidates(doc[i].class) : IsFirstKnownClass(x)})

\* first_known_div.find('p', class_=lambda x: x and 'ety-sl' in x and 'pb-3' in x)
FindYearParagraph(ps) ==
    FirstOf({i \in 1..Len(ps) : \E x \in ClassCandidates(ps[i].class) : IsYearParagraphClass(x)})

\* soup.find('div', class_=lambda x: x and 'etymology-content-section' in x)
FindEtymologyDiv(doc) ==
    FirstOf({i \in 1..Len(doc) : \E x \in ClassCandidates(doc[i].class) : IsEtymologyClass(x)})

\* etym_div.find('p', class_='et')
FindEtymologyParagraph(ps) ==
    FirstOf({i \in 1..Len(ps) : \E x \in ClassCandidates(ps[i].class) : x = Et})

\* get_text()
GetText(strings) == Concat(strings)

\* str.strip()
Strip(s) ==
    LET keep == {i \in 1..Len(s) : ~IsSpace(s[i])}
    IN  IF keep = {} THEN <<>> ELSE SubSeq(s, Min(keep), Max(keep))

RECURSIVE StrippedNonEmpty(_)
StrippedNonEmpty(strings) ==
    IF strings = <<>> THEN <<>>
    ELSE LET t == Strip(Head(strings))
         IN  IF t = <<>> THEN StrippedNonEmpty(Tail(strings))
             ELSE <<t>> \o StrippedNonEmpty(Tail(strings))

\* get_text(separator=' ', strip=True)
GetTextStripped(strings) == JoinWith(<<" ">>, StrippedNonEmpty(strings))

(***************************************************************************)
(* extract_year                                                            *)
(***************************************************************************)
ExtractYear_NotFoundAccurate(doc) ==
    LET d == FindFirstKnownDiv(doc)
    IN  IF d = 0 THEN <<NotFound, TRUE>>
        ELSE LET p == FindYearParagraph(doc[d].ps)
             IN  IF p = 0 THEN <<NotFound, TRUE>>
                 ELSE YearFromText(GetText(doc[d].ps[p].strings))

ExtractYear(doc) ==
    LET d == FindFirstKnownDiv(doc)
    IN  IF d = 0 THEN <<NotFound, FALSE>>
        ELSE LET p == FindYearParagraph(doc[d].ps)
             IN  IF p = 0 THEN <<NotFound, FALSE>>
                 ELSE YearFromText(GetText(doc[d].ps[p].strings))

(***************************************************************************)
(* extract_etymology                                                       *)
(***************************************************************************)
ExtractEtymology_Blend(doc, year) ==
    LET d == FindEtymologyDiv(doc)
    IN  IF d = 0 THEN ClassifyByYear(year)
        ELSE LET p == FindEtymologyParagraph(doc[d].ps)
             IN  IF p = 0 THEN ClassifyByYear(year)
                 ELSE LET etym_text == GetTextStripped(doc[d].ps[p].strings)
                      IN  IF year >= ModernFrom \/ etym_text = <<>>
                          THEN ClassifyByYear(year) ELSE etym_text

ExtractEtymology(doc, year) ==
    LET d == FindEtymologyDiv(doc)
    IN  IF d = 0 THEN ClassifyByYear(year)
        ELSE LET p == FindEtymologyParagraph(doc[d].ps)
             IN  IF p = 0 THEN ClassifyByYear(year)
                 ELSE LET etym_text == GetTextStripped(doc[d].ps[p].strings)
                      IN  IF etym_text # <<>> THEN etym_text ELSE ClassifyByYear(year)

(***************************************************************************)
(* fetch_word_data.  An outcome of requests.get + raise_for_status is a    *)
(* record [ok, doc]: ok = FALSE when a RequestException was raised.        *)
(***************************************************************************)
Failure == [ok |-> FALSE, doc |-> <<>>]
Fetched(doc) == [ok |-> TRUE, doc |-> doc]

FetchWordData_StaleYear(outcome) ==
    IF ~outcome.ok THEN <<NotFound, Unknown, FALSE>>
    ELSE LET ya == ExtractYear(outcome.doc)
         IN  <<ya[1], ExtractEtymology(outcome.doc, NotFound), ya[2]>>

FetchWordData(outcome) ==
    IF ~outcome.ok THEN <<NotFound, Unknown, FALSE>>
    ELSE LET ya == ExtractYear(outcome.doc)
         IN  <<ya[1], ExtractEtymology(outcome.doc, ya[1]), ya[2]>>

\* the functions fetch_word_data goes through, in order
FetchWordDataCalls(outcome) ==
    IF ~outcome.ok THEN <<"requests.get">>
    ELSE <<"requests.get", "extract_year", "extract_etymology">>

(***************************************************************************)
(* Inputs of the single-call specifications.                               *)
(***************************************************************************)
\* Pieces of paragraph text: digit runs of several lengths, ordinal
\* suffixes, separators, the century word
Lexicon == { <<"1">>, <<"1","5","9">>, <<"1","3","t","h">>, <<"s","t">>,
             <<" ">>, <<",">>, CenturyWord }

\* Longer pieces, so that a text holds several years and century phrases,
\* in upper and mixed case
Phrases == { <<"1","5","9","0">>, <<"1","3","T","H"," ","\n">> \o CenturyWord,
             <<"2","1","s","t"," ","C","e","n","t","u","r","y">>, <<"0","t","h"," ">> \o CenturyWord,
             <<"0","0","0">>, <<" ">>, <<"x">> }


YearParagraph(strings) == [class |-> <<EtySl, Pb3>>, strings |-> strings]
FirstKnownDiv(ps) == [class |-> <<FirstKnownSection>>, ps |-> ps]
\* A document whose first-known-use paragraph holds the given strings
YearDoc(strings) == << FirstKnownDiv(<<YearParagraph(strings)>>) >>

Call(fn, ok, doc, year) == [fn |-> fn, ok |-> ok, doc |-> doc, year |-> year]

\* the calls studied on one document, and the failed fetch
TextCalls(d) ==
    {Call(fn, TRUE, d, 0) : fn \in {"extract_year", "fetch_word_data"}}
    \cup {Call("fetch_word_data", FALSE, <<>>, 0)}

(***************************************************************************)
(* The single-call steps: one function applied to the argument drawn in    *)
(* the initial state.                                                      *)
(***************************************************************************)
IdleMain ==
    /\ input = <<>> /\ pos = 0 /\ row = <<>> /\ result = <<>>
    /\ output = <<>> /\ fetchLog = <<>>

mainVars == <<input, pos, row, result, output, fetchLog>>

CallClassifyByYear ==
    /\ pc = "call" /\ arg.fn = "classify_by_year"
    /\ ret' = ClassifyByYear(arg.year)
    /\ pc' = "return"
    /\ UNCHANGED <<mainVars, arg>>

CallExtractYear ==
    /\ pc = "call" /\ arg.fn = "extract_year"
    /\ ret' = ExtractYear(arg.doc)
    /\ pc' = "return"
    /\ UNCHANGED <<mainVars, arg>>

CallExtractEtymology ==
    /\ pc = "call" /\ arg.fn = "extract_etymology"
    /\ ret' = ExtractEtymology(arg.doc, arg.year)
    /\ pc' = "return"
    /\ UNCHANGED <<mainVars, arg>>

CallFetchWordData ==
    /\ pc = "call" /\ arg.fn = "fetch_word_data"
    /\ ret' = FetchWordData([ok |-> arg.ok, doc |-> arg.doc])
    /\ pc' = "return"
    /\ UNCHANGED <<mainVars, arg>>

InitClassify ==
    /\ IdleMain /\ pc = "call" /\ ret = <<>>
    /\ \E y \in (NotFound - 1)..MaxYear : arg = Call("classify_by_year", TRUE, <<>>, y)
NextClassify == CallClassifyByYear
SpecClassify == InitClassify /\ [][NextClassify]_vars

\* the paragraph strings are up to MaxChunks pieces of the lexicon or up to
\* MaxPhrases phrases; or the section, or its paragraph, is missing
InitText ==
    /\ IdleMain /\ pc = "call" /\ ret = <<>>
    /\ \/ \E k \in 0..MaxChunks : \E t \in [1..k -> Lexicon] : arg \in TextCalls(YearDoc(t))
       \/ \E k \in 0..MaxPhrases : \E t \in [1..k -> Phrases] : arg \in TextCalls(YearDoc(t))
       \/ \E d \in {<<>>, <<FirstKnownDiv(<<>>)>>} : arg \in TextCalls(d)
NextText == CallExtractYear \/ CallFetchWordData
SpecText == InitText /\ [][NextText]_vars

(***************************************************************************)
(* Documents of varied structure.                                          *)
(***************************************************************************)
Text14thCentury == <<"1","4","t","h"," ">> \o CenturyWord
TextCirca == <<"c","i","r","c","a"," ">>
Text1590 == <<"1","5","9","0">>
Text1900 == <<"1","9","0","0">>

DocParagraphs == {
    \* both tokens
    [class |-> <<EtySl, Pb3>>, strings |-> <<Text14thCentury>>],
    \* both tokens, in the other order, with a third between them
    [class |-> <<Pb3, <<"m","b">>, EtySl>>, strings |-> <<TextCirca, Text1590>>],
    \* pb-3 missing
    [class |-> <<EtySl>>, strings |-> <<Text1900>>],
    \* both only as parts of longer tokens
    [class |-> <<EtySl \o <<"x">>, Pb3 \o <<"0">> >>, strings |-> <<Text1900>>],
    \* an etymology paragraph with text
    [class |-> <<Et>>, strings |-> << <<" ","M","E",",">>, <<" ","f","r","o","m"," ">>,
                                      <<"O","F","\n">> >>],
    \* an etymology paragraph whose text is blank
    [class |-> <<Et>>, strings |-> << <<" ">>, <<"\n">> >>],
    \* class ety, not et
    [class |-> <<Et \o <<"y">> >>, strings |-> << <<"L">> >>] }

ParagraphLists ==
    {<<>>} \cup {<<p>> : p \in DocParagraphs}
    \cup { << [class |-> <<EtySl>>, strings |-> <<Text1900>>],
              [class |-> <<EtySl, Pb3>>, strings |-> <<Text14thCentury>>] >> }

DivClasses == {
    <<FirstKnownSection>>,
    << <<"r","o","w">>, <<"x">> \o FirstKnownSection \o <<"2">> >>,
    <<EtymologySection>>,
    <<>> }

Divs == {[class |-> c, ps |-> ps] : c \in DivClasses, ps \in ParagraphLists}
EtymologyYears == {NotFound, EarlyModernAfter, EarlyModernAfter + 1, ModernFrom}

\* the calls studied on one document, and the failed fetch
DocCalls(d) ==
    {Call(fn, TRUE, d, 0) : fn \in {"extract_year", "fetch_word_data"}}
    \cup {Call("fetch_word_data", FALSE, <<>>, 0)}
    \cup {Call("extract_etymology", TRUE, d, y) : y \in EtymologyYears}

\* a document is any sequence of up to MaxDivs divs
InitDoc ==
    /\ IdleMain /\ pc = "call" /\ ret = <<>>
    /\ \E k \in 0..MaxDivs : \E d \in [1..k -> Divs] : arg \in DocCalls(d)
NextDoc == CallExtractYear \/ CallExtractEtymology \/ CallFetchWordData
SpecDoc == InitDoc /\ [][NextDoc]_vars

(***************************************************************************)
(* main(): the input file and the outcomes the network can give.           *)
(***************************************************************************)
HeaderRow == << <<"i","d">>, <<"d","a","y">>, <<"w","o","r","d">> >>

\* Data rows: two and four fields, the same word twice in different case,
\* and the empty row csv.reader yields for a blank line
RowMenu == {
    << <<"a">>, <<"b">> >>,
    << <<"x">>, <<"y">>, <<"S","o","n","n","e","t">> >>,
    << <<"1">>, <<"2">>, <<"s","o","n","n","e","t">>, <<"z">> >>,
    <<>> }


\* "14th century" and a blank etymology paragraph
SonnetDoc == << FirstKnownDiv(<<YearParagraph(<<Text14thCentury>>)>>),
                [class |-> <<EtymologySection>>,
                 ps |-> << [class |-> <<Et>>, strings |-> << <<" ">> >>] >>] >>
\* "circa 1590" and an etymology text
CircaDoc == << FirstKnownDiv(<<YearParagraph(<<TextCirca, Text1590>>)>>),
               [class |-> <<EtymologySection>>,
                ps |-> << [class |-> <<Et>>, strings |-> << <<"M","E">> >>] >>] >>

Outcomes == {Failure, Fetched(SonnetDoc), Fetched(CircaDoc)}

IdleCall == arg = Call("main", TRUE, <<>>, 0) /\ ret = <<>>

\* header = next(reader); writer.writerow(header + [...]).  next() on an
\* empty file raises StopIteration out of main
ReadHeader ==
    /\ pc = "open"
    /\ IF input = <<>>
       THEN pc' = "raised" /\ UNCHANGED <<pos, output>>
       ELSE /\ pos' = 1
            /\ output' = <<input[1] \o NewColumns>>
            /\ pc' = "loop"
    /\ UNCHANGED <<input, row, result, fetchLog, arg, ret>>

\* a row of fewer than 3 fields: the diagnostic, then continue
SkipRow_WriteBlanks ==
    /\ pc = "loop" /\ pos < Len(input)
    /\ Len(input[pos + 1]) < 3
    /\ pos' = pos + 1
    /\ output' = Append(output, input[pos + 1] \o << <<>>, <<>>, <<>> >>)
    /\ UNCHANGED <<input, row, result, fetchLog, pc, arg, ret>>

SkipRow ==
    /\ pc = "loop" /\ pos < Len(input)
    /\ Len(input[pos + 1]) < 3
    /\ pos' = pos + 1
    /\ UNCHANGED <<input, row, result, output, fetchLog, pc, arg, ret>>

\* a row of at least 3 fields, up to the return of fetch_word_data
FetchRow_AbortOnFailure(outcome) ==
    /\ pc = "loop" /\ pos < Len(input)
    /\ Len(input[pos + 1]) >= 3
    /\ pos' = pos + 1
    /\ row' = input[pos + 1]
    /\ fetchLog' = Append(fetchLog, [line |-> pos + 1,
                                     word |-> LowerStr(input[pos + 1][3]),
                                     outcome |-> outcome,
                                     calls |-> FetchWordDataCalls(outcome)])
    /\ result' = FetchWordData(outcome)
    /\ pc' = IF outcome.ok THEN "write" ELSE "raised"
    /\ UNCHANGED <<input, output, arg, ret>>

FetchRow_Retry(outcome) ==
    /\ pc = "loop" /\ pos < Len(input)
    /\ Len(input[pos + 1]) >= 3
    /\ pos' = pos + 1
    /\ row' = input[pos + 1]
    /\ LET entry == [line |-> pos + 1,
                     word |-> LowerStr(input[pos + 1][3]),
                     outcome |-> outcome,
                     calls |-> FetchWordDataCalls(outcome)]
       IN  fetchLog' = IF outcome.ok THEN Append(fetchLog, entry)
                       ELSE fetchLog \o <<entry, entry>>
    /\ result' = FetchWordData(outcome)
    /\ pc' = "write"
    /\ UNCHANGED <<input, output, arg, ret>>

FetchRow(outcome) ==
    /\ pc = "loop" /\ pos < Len(input)
    /\ Len(input[pos + 1]) >= 3
    /\ pos' = pos + 1
    /\ row' = input[pos + 1]
    /\ fetchLog' = Append(fetchLog, [line |-> pos + 1,
                                     word |-> LowerStr(input[pos + 1][3]),
                                     outcome |-> outcome,
                                     calls |-> FetchWordDataCalls(outcome)])
    /\ result' = FetchWordData(outcome)
    /\ pc' = "write"
    /\ UNCHANGED <<input, output, arg, ret>>

\* writer.writerow(row + [year, etym, is_accurate])
WriteRow ==
    /\ pc = "write"
    /\ output' = Append(output, row \o result)
    /\ pc' = "loop"
    /\ UNCHANGED <<input, pos, row, result, fetchLog, arg, ret>>

\* the reader is exhausted: the files are closed and main returns
Finish ==
    /\ pc = "loop" /\ pos = Len(input)
    /\ pc' = "done"
    /\ UNCHANGED <<input, pos, row, result, output, fetchLog, arg, ret>>

Init ==
    \* the empty file, or the header and up to MaxRows data rows
    /\ \/ input = <<>>
       \/ \E n \in 0..MaxRows : \E rows \in [1..n -> RowMenu] : input = <<HeaderRow>> \o rows
    /\ pos = 0 /\ row = <<>> /\ result = <<>> /\ output = <<>> /\ fetchLog = <<>>
    /\ pc = "open"
    /\ IdleCall

Next ==
    \/ ReadHeader
    \/ SkipRow
    \/ \E outcome \in Outcomes : FetchRow(outcome)
    \/ WriteRow
    \/ Finish

Spec == Init /\ [][Next]_vars

(***************************************************************************)
(* Vocabulary of the properties.  These state what a text or a document    *)
(* holds in the terms of the specification, independently of the search    *)
(* operators above.                                                        *)
(***************************************************************************)
Returned(fn) == pc = "return" /\ arg.fn = fn
RetYear == ret[1]
RetAccurate == ret[Len(ret)]

\* The argument is a fetched document with a first-known-use paragraph
HasYearText == arg.ok /\ Len(arg.doc) = 1 /\ Len(arg.doc[1].ps) = 1
ArgStrings == arg.doc[1].ps[1].strings
ArgText == Concat(ArgStrings)

\* No word character at position i of s (the ends of s included)
NonWordAt(s, i) == i < 1 \/ i > Len(s) \/ ~IsWordChar(s[i])

\* s[i+1..i+n] is a run of 3 or 4 digits with no word character on either side
StandaloneRun(s, i, n) ==
    /\ n \in {3, 4} /\ i >= 0 /\ i + n <= Len(s)
    /\ \A k \in 1..n : s[i + k] \in DigitSet
    /\ NonWordAt(s, i) /\ NonWordAt(s, i + n + 1)

HasStandaloneRun(s) == \E i \in 0..Len(s), n \in {3, 4} : StandaloneRun(s, i, n)

Pow10(k) == CASE k = 0 -> 1 [] k = 1 -> 10 [] k = 2 -> 100 [] k = 3 -> 1000

\* The number written by the n <= 4 digits s[i+1..i+n]
DecimalValue(s, i, n) ==
    LET place(k) == IF k <= n THEN DigitVal(s[i + k]) * Pow10(n - k) ELSE 0
    IN  place(1) + place(2) + place(3) + place(4)

LeftmostRunValue(s) ==
    LET i == Min({j \in 0..Len(s) : \E n \in {3, 4} : StandaloneRun(s, j, n)})
        n == CHOOSE m \in {3, 4} : StandaloneRun(s, i, m)
    IN  DecimalValue(s, i, n)

SameIgnoringCase(s, t) ==
    Len(s) = Len(t) /\ \A k \in 1..Len(s) : ToLower(s[k]) = ToLower(t[k])

\* At offset i: d digits and an ordinal suffix
PhraseHead(s, i, d) ==
    /\ i >= 0 /\ i + d + 2 <= Len(s)
    /\ \A k \in 1..d : s[i + k] \in DigitSet
    /\ \E suffix \in OrdinalSuffixes :
          SameIgnoringCase(SubSeq(s, i + d + 1, i + d + 2), suffix)

\* ... followed by whitespace and "century", the phrase ending at offset e
PhraseTail(s, i, d, e) ==
    /\ e <= Len(s) /\ e - 7 > i + d + 2
    /\ \A k \in (i + d + 3)..(e - 7) : IsSpace(s[k])
    /\ SameIgnoringCase(SubSeq(s, e - 6, e), CenturyWord)

\* offsets where a century phrase starts, anywhere in the text
PhraseStarts(s) ==
    {i \in 0..Len(s) : \E d \in {1, 2} :
        PhraseHead(s, i, d) /\ \E e \in (i + d + 10)..Len(s) : PhraseTail(s, i, d, e)}

\* offsets where a century phrase starts and ends at word boundaries
BoundedPhraseStarts(s) ==
    {i \in 0..Len(s) : \E d \in {1, 2} :
        /\ PhraseHead(s, i, d) /\ NonWordAt(s, i)
        /\ \E e \in (i + d + 10)..Len(s) : PhraseTail(s, i, d, e) /\ NonWordAt(s, e + 1)}

CenturyNumberAt(s, i) ==
    LET d == CHOOSE m \in {1, 2} : PhraseHead(s, i, m)
    IN  DecimalValue(s, i, d)

(***************************************************************************)
(* C1  classify_by_year returns "modern english" iff year >= 1800,         *)
(* "early modern english" iff 1450 < year < 1800, and "unknown" for every  *)
(* other year, 1450 and -1 included.                                       *)
(***************************************************************************)
C1_ClassifyTotal ==
    Returned("classify_by_year") =>
        /\ ret \in {ModernEnglish, EarlyModernEnglish, Unknown}
        /\ (ret = ModernEnglish) <=> (arg.year >= 1800)
        /\ (ret = EarlyModernEnglish) <=> (1450 < arg.year /\ arg.year < 1800)
        /\ (arg.year <= 1450) => ret = Unknown
        /\ arg.year = 1451 => ret = EarlyModernEnglish
        /\ arg.year = 1799 => ret = EarlyModernEnglish
        /\ arg.year = 1800 => ret = ModernEnglish
        /\ arg.year = -1 => ret = Unknown

C1_Witness == Returned("classify_by_year") /\ arg.year = 1450 /\ ret = Unknown

(***************************************************************************)
(* C2  When the first-known-use text holds a standalone run of 3 or 4      *)
(* digits, extract_year returns (n, True) for the leftmost such run n,     *)
(* whether or not the text also holds a century phrase.                    *)
(***************************************************************************)
C2_LiteralYearWins ==
    (Returned("extract_year") /\ HasYearText /\ HasStandaloneRun(ArgText)) =>
        ret = <<LeftmostRunValue(ArgText), TRUE>>

\* a century phrase stands before the literal year, and the year is returned
C2_Witness ==
    /\ Returned("extract_year") /\ HasYearText
    /\ BoundedPhraseStarts(ArgText) # {}
    /\ HasStandaloneRun(ArgText)
    /\ Min(BoundedPhraseStarts(ArgText)) = 0
    /\ ret = <<1590, TRUE>>

(***************************************************************************)
(* C3  When the text holds no standalone run of 3 or 4 digits but holds a  *)
(* century phrase, extract_year returns ((c - 1) * 100, False) for the     *)
(* number c of the leftmost such phrase.                                   *)
(***************************************************************************)
\* as claimed: a century phrase anywhere in the text
C3_AnyCenturyPhrase ==
    (Returned("extract_year") /\ HasYearText /\ ~HasStandaloneRun(ArgText)
        /\ PhraseStarts(ArgText) # {}) =>
        ret = <<(CenturyNumberAt(ArgText, Min(PhraseStarts(ArgText))) - 1) * 100, FALSE>>

\* as amended: a century phrase that starts and ends at word boundaries
C3_BoundedCenturyPhrase ==
    (Returned("extract_year") /\ HasYearText /\ ~HasStandaloneRun(ArgText)
        /\ BoundedPhraseStarts(ArgText) # {}) =>
        ret = <<(CenturyNumberAt(ArgText, Min(BoundedPhraseStarts(ArgText))) - 1) * 100,
                FALSE>>

\* two century phrases, the 21st before the 13th
C3_Witness ==
    /\ Returned("extract_year") /\ HasYearText
    /\ ~HasStandaloneRun(ArgText)
    /\ Cardinality(BoundedPhraseStarts(ArgText)) = 2
    /\ ret = <<2000, FALSE>>

(***************************************************************************)
(* C4  A year of -1 always comes with is_accurate = False and only from a  *)
(* not-found path (failed fetch, no section, no paragraph, neither pattern *)
(* in the text); a match of either pattern never yields -1.                *)
(***************************************************************************)
NotFoundPath ==
    \/ ~arg.ok
    \/ arg.doc = <<>>
    \/ Len(arg.doc) = 1 /\ arg.doc[1].ps = <<>>
    \/ HasYearText /\ ~HasStandaloneRun(ArgText) /\ BoundedPhraseStarts(ArgText) = {}

C4_SentinelNotAccurate ==
    (pc = "return" /\ arg.fn \in {"extract_year", "fetch_word_data"}) =>
        /\ RetYear = -1 => (RetAccurate = FALSE /\ NotFoundPath)
        /\ NotFoundPath => (RetYear = -1 /\ RetAccurate = FALSE)

\* the sentinel from a fetched document that has the section but no paragraph
C4_Witness ==
    /\ Returned("fetch_word_data") /\ arg.ok
    /\ Len(arg.doc) = 1 /\ arg.doc[1].ps = <<>>
    /\ RetYear = -1 /\ RetAccurate = FALSE

(***************************************************************************)
(* Vocabulary of the properties of main().                                 *)
(***************************************************************************)
\* positions in the input file of the data rows with at least 3 fields
\* among the first n rows, in order
RECURSIVE KeptLines(_, _)
KeptLines(rows, n) ==
    IF n <= 1 THEN <<>>
    ELSE IF Len(rows[n]) >= 3 THEN Append(KeptLines(rows, n - 1), n)
    ELSE KeptLines(rows, n - 1)

\* the three values appended to a written row
Appended(o) == SubSeq(o, Len(o) - 2, Len(o))

\* what each outcome the network can give resolves to
ExpectedResult(outcome) ==
    CASE ~outcome.ok -> <<-1, <<"u","n","k","n","o","w","n">>, FALSE>>
      [] outcome = Fetched(SonnetDoc) -> <<1300, <<"u","n","k","n","o","w","n">>, FALSE>>
      [] outcome = Fetched(CircaDoc) -> <<1590, <<"M","E">>, TRUE>>

(***************************************************************************)
(* C5  A failed fetch resolves to (-1, "unknown", False) without any       *)
(* extraction, does not abort the run, and leaves the result of every      *)
(* other row what its own fetch gives.                                     *)
(***************************************************************************)
C5_FailureIsolated ==
    /\ pc = "raised" => input = <<>>
    /\ pc \in {"open", "loop", "write"} => ENABLED Next
    /\ pc = "done" => Len(output) - 1 = Len(fetchLog)
    /\ \A k \in 1..Len(fetchLog) :
          /\ ~fetchLog[k].outcome.ok => fetchLog[k].calls = <<"requests.get">>
          /\ k + 1 <= Len(output) =>
                Appended(output[k + 1]) = ExpectedResult(fetchLog[k].outcome)

\* a failed fetch, then a row resolved from its own document
C5_Witness ==
    /\ pc = "done" /\ Len(fetchLog) = 2
    /\ ~fetchLog[1].outcome.ok /\ fetchLog[2].outcome.ok
    /\ Appended(output[2]) = <<-1, <<"u","n","k","n","o","w","n">>, FALSE>>
    /\ Appended(output[3]) = <<1590, <<"M","E">>, TRUE>>

(***************************************************************************)
(* C7  When main completes, the output is the header with the three new    *)
(* column names, then exactly the input rows of at least 3 fields, in      *)
(* input order, each once, unchanged and followed by three values.         *)
(***************************************************************************)
C7_OutputRows ==
    pc = "done" =>
        LET kept == KeptLines(input, Len(input))
        IN  /\ Len(output) = 1 + Len(kept)
            /\ output[1] = input[1] \o << <<"y","e","a","r","_","u","s","e","d">>,
                                          <<"e","t","y","m">>,
                                          <<"y","e","a","r","_","a","c","c","u","r","a","t","e">> >>
            /\ \A k \in 1..Len(kept) :
                  LET r == input[kept[k]]
                      o == output[k + 1]
                  IN  /\ Len(o) = Len(r) + 3
                      /\ SubSeq(o, 1, Len(r)) = r
                      /\ o[Len(r) + 1] \in Int
                      /\ o[Len(r) + 2] # <<>>
                      /\ o[Len(r) + 3] \in BOOLEAN

\* a short row between two kept rows leaves two data rows
C7_Witness ==
    /\ pc = "done" /\ Len(input) = 4
    /\ Len(input[2]) = 4 /\ Len(input[3]) = 2 /\ Len(input[4]) = 3
    /\ Len(output) = 3
    /\ Len(output[2]) = 7 /\ Len(output[3]) = 6

(***************************************************************************)
(* C8  Each row of at least 3 fields causes exactly one fetch, for its     *)
(* third field; shorter rows cause none; and a row is fetched only once    *)
(* the kept row before it has been written.                                *)
(***************************************************************************)
C8_OneFetchPerRow ==
    pc \in {"loop", "write", "done"} =>
        LET kept == KeptLines(input, pos)
        IN  /\ Len(fetchLog) = Len(kept)
            /\ \A k \in 1..Len(kept) :
                  /\ fetchLog[k].line = kept[k]
                  /\ fetchLog[k].word = LowerStr(input[kept[k]][3])
            /\ Len(output) - 1 = Len(fetchLog) - (IF pc = "write" THEN 1 ELSE 0)

\* the same word in two rows, the first fetch failing: two fetches, no more
C8_Witness ==
    /\ pc = "done" /\ Len(input) = 4 /\ Len(input[3]) < 3
    /\ Len(fetchLog) = 2
    /\ fetchLog[1].word = fetchLog[2].word
    /\ ~fetchLog[1].outcome.ok
    /\ fetchLog[1].line = 2 /\ fetchLog[2].line = 4

(***************************************************************************)
(* Vocabulary of the properties of documents, in terms of class tokens.    *)
(***************************************************************************)
HasTokenContaining(cls, sub) == \E i \in 1..Len(cls) : Contains(sub, cls[i])
HasToken(cls, token) == \E i \in 1..Len(cls) : cls[i] = token

\* the first div one of whose class tokens contains sub, 0 if there is none
SectionOf(doc, sub) ==
    LET hits == {i \in 1..Len(doc) : HasTokenContaining(doc[i].class, sub)}
    IN  IF hits = {} THEN 0 ELSE Min(hits)

\* the paragraphs of that section, <<>> if there is no section
SectionParagraphs(doc, sub) ==
    IF SectionOf(doc, sub) = 0 THEN <<>> ELSE doc[SectionOf(doc, sub)].ps

\* the normalized text of the etymology paragraph, <<>> when the section or
\* the paragraph is absent
EtymologyText(doc) ==
    LET ps == SectionParagraphs(doc, EtymologySection)
        hits == {i \in 1..Len(ps) : HasToken(ps[i].class, Et)}
    IN  IF hits = {} THEN <<>> ELSE GetTextStripped(ps[Min(hits)].strings)

Labels == {ModernEnglish, EarlyModernEnglish, Unknown}

(***************************************************************************)
(* C6  extract_etymology returns the normalized etymology text verbatim,   *)
(* whatever the year, when that text is non-empty, and classify_by_year of *)
(* the year when the section or the paragraph is absent or the text is     *)
(* empty; so a label is produced only when there is no text.               *)
(***************************************************************************)
C6_TextOrClassification ==
    Returned("extract_etymology") =>
        /\ EtymologyText(arg.doc) # <<>> => ret = EtymologyText(arg.doc)
        /\ EtymologyText(arg.doc) = <<>> => ret = ClassifyByYear(arg.year)
        /\ ret \in Labels => EtymologyText(arg.doc) = <<>>

\* a text returned for a year that would classify as modern english
C6_Witness ==
    /\ Returned("extract_etymology") /\ arg.year = 1800
    /\ ret = <<"M","E",","," ","f","r","o","m"," ","O","F">>

(***************************************************************************)
(* C9  For a fetched document without etymology text, the etymology of the *)
(* result is classify_by_year of the year of the same result: -1 gives     *)
(* "unknown", and "14th century" gives (1300, "unknown", False).           *)
(***************************************************************************)
C9_ClassifiedByOwnYear ==
    (Returned("fetch_word_data") /\ arg.ok /\ EtymologyText(arg.doc) = <<>>) =>
        /\ ret[2] = ClassifyByYear(ret[1])
        /\ ret[1] = -1 => ret[2] = <<"u","n","k","n","o","w","n">>
        /\ ret[1] > 1450 => ret[2] # <<"u","n","k","n","o","w","n">>

\* "14th century" with a blank etymology paragraph
C9_Witness ==
    /\ Returned("fetch_word_data") /\ arg.ok
    /\ SectionOf(arg.doc, EtymologySection) # 0
    /\ SectionParagraphs(arg.doc, EtymologySection) # <<>>
    /\ HasToken(SectionParagraphs(arg.doc, EtymologySection)[1].class, Et)
    /\ ret = <<1300, <<"u","n","k","n","o","w","n">>, FALSE>>

(***************************************************************************)
(* C10  The year paragraph is selected only if its class tokens include    *)
(* both ety-sl and pb-3: when the first-known-use section (the first div   *)
(* with a class token containing first-known-content-section) has no such  *)
(* paragraph, extract_year returns (-1, False).                            *)
(***************************************************************************)
C10_BothTokensRequired ==
    Returned("extract_year") =>
        LET ps == SectionParagraphs(arg.doc, FirstKnownSection)
        IN  (\A i \in 1..Len(ps) : ~(HasToken(ps[i].class, EtySl) /\ HasToken(ps[i].class, Pb3)))
                => ret = <<-1, FALSE>>

====
